---- MODULE Spec2Model ----
(***************************************************************************)
(* Research Analyzer (src/src/research_analyzer.py): the SQLite-backed     *)
(* store of papers, hypotheses and citations with its FTS5 projection.     *)
(*                                                                         *)
(* Each public method of ResearchAnalyzer is one action: the method runs   *)
(* inside `with sqlite3.connect(...) as con`, which commits when the block *)
(* ends and rolls back when it raises, so a call is one atomic step.       *)
(*                                                                         *)
(* Strings are sequences of one-character strings.  Floats (score,         *)
(* confidence) are integers: a score is in thousandths (3142 is 3.142), a  *)
(* confidence in tenths (9 is 0.9, 14 is 1.4); NaN is the float NaN.       *)
(***************************************************************************)
EXTENDS Integers, Sequences, FiniteSets, TLC

\* ------------------------------------------------------------------ bounds
\* The clock takes the values 0..MaxClock (two ticks of _now() per second).
MaxClock == 2
\* add_paper is called at most MaxAdds times (papers_fts never shrinks).
MaxAdds == 2
\* At most MaxHyps hypotheses are stored at a time.
MaxHyps == 3
\* add_citation succeeds at most MaxCits times (AUTOINCREMENT never reuses).
MaxCits == 2
\* add_citation succeeds at most StoreCits times in the specifications that
\* interleave it with the calls on all three tables.
StoreCits == 1
\* At most StampHyps hypotheses are stored in the specification of the
\* timestamps.
StampHyps == 1

\* --------------------------------------------------------- program constants
\* corpus_stats keeps the first 10 tags by count.
TopTagsLen == 10
\* _paper_id: the slug keeps the first 24 characters of the title.
SlugLen == 24
\* update_score clamps into [ScoreMin, ScoreMax]: 0.0 and 10.0, in
\* thousandths.
ScoreMin == 0
ScoreMax == 10000

\* ------------------------------------------------------------ value domains
\* An optional argument of Python: None, or a value.
None == [some |-> FALSE]
Some(v) == [some |-> TRUE, v |-> v]

\* A Python float argument: a number, or NaN.
Num(n) == [nan |-> FALSE, n |-> n]
NaN == [nan |-> TRUE, n |-> 0]

\* Python's a < b on floats: every comparison with NaN is false.
PyLt(a, b) == ~a.nan /\ ~b.nan /\ a.n < b.n

\* Python's min(a, b) and max(a, b): the first argument unless the second is
\* strictly smaller (larger).
PyMin(a, b) == IF PyLt(b, a) THEN b ELSE a
PyMax(a, b) == IF PyLt(a, b) THEN b ELSE a

\* str.lower() on the model's alphabet.
Lower(c) == CASE c = "A" -> "a"
              [] c = "B" -> "b"
              [] c = "T" -> "t"
              [] c = "X" -> "x"
              [] c = "Y" -> "y"
              [] OTHER   -> c

LowerStr(s) == [i \in 1..Len(s) |-> Lower(s[i])]

\* [a-z0-9] of the regular expression in _paper_id.
IsSlugChar(c) ==
    c \in {"a", "b", "e", "f", "k", "t", "u", "v", "x", "y", "z", "0", "1"}

\* re.sub(r"[^a-z0-9]+", "-", s): every maximal run of other characters
\* becomes one "-".
RECURSIVE ReSubDash(_)
ReSubDash(s) ==
    IF s = <<>> THEN <<>>
    ELSE IF IsSlugChar(Head(s)) THEN <<Head(s)>> \o ReSubDash(Tail(s))
    ELSE LET rest == ReSubDash(Tail(s))
         IN  IF Len(s) > 1 /\ ~IsSlugChar(s[2]) THEN rest ELSE <<"-">> \o rest

\* str.strip("-")
RECURSIVE LStripDash(_)
LStripDash(s) == IF s # <<>> /\ Head(s) = "-" THEN LStripDash(Tail(s)) ELSE s

RECURSIVE RStripDash(_)
RStripDash(s) ==
    IF s # <<>> /\ s[Len(s)] = "-" THEN RStripDash(SubSeq(s, 1, Len(s) - 1)) ELSE s

StripDash(s) == RStripDash(LStripDash(s))

Truncate(s, n) == SubSeq(s, 1, IF Len(s) < n THEN Len(s) ELSE n)

Slug(title) == StripDash(Truncate(ReSubDash(LowerStr(title)), SlugLen))

\* hashlib.md5(...).hexdigest()[:k]: the digest of the hashed text, taken as
\* collision-free on the inputs of the model (equal digests iff equal text).
Md5(text) == text

\* The clock second of a clock reading: strftime("%Y%m%dT%H%M%S").
Second(t) == t \div 2

\* _paper_id(title) called at clock reading t.
PaperId(title, t) == [slug |-> Slug(title), h |-> Md5(<<title, Second(t)>>)]

\* The id add_hypothesis derives from paper_id, text and _now().
HypId(paper_id, text, ts) == Md5(<<paper_id, text, ts>>)

\* json.dumps / json.loads of a list of strings (or a dict): the text column
\* holds the encoded value and decoding gives back the value encoded.
JsonDumps(v) == [json |-> v]
JsonLoads(j) == j.json

\* `x or default` of Python for an optional list or string: None and the
\* empty sequence are falsy.
OrElse(x, default) == IF x.some /\ x.v # <<>> THEN x.v ELSE default

\* `x or default` of Python for an optional status string.
OrElseStr(x, default) == IF x.some /\ x.v # "" THEN x.v ELSE default

\* `x or {}` of Python for an optional dict (a set of key-value pairs).
OrElseDict(x) == IF x.some THEN x.v ELSE {}

\* " ".join(tags)
RECURSIVE Join(_)
Join(tags) ==
    IF tags = <<>> THEN <<>>
    ELSE IF Len(tags) = 1 THEN tags[1]
    ELSE tags[1] \o <<" ">> \o Join(Tail(tags))

\* ------------------------------------------------------------------ inputs
\* The keyword arguments of the add_paper calls of the model.  The first two
\* share their title, so they get the same id within one clock second; the
\* third has the empty title.
PaperArgs ==
    { [title |-> <<"A", "b">>, abstract |-> <<"x">>,
       authors |-> Some(<< <<"u">>, <<"t">> >>), tags |-> Some(<< <<"T">>, <<"a">> >>),
       metadata |-> None],
      [title |-> <<"A", "b">>, abstract |-> <<"z">>,
       authors |-> Some(<< <<"t">>, <<"u">> >>), tags |-> None,
       metadata |-> Some({<<"k", "v">>})],
      [title |-> <<>>, abstract |-> <<>>,
       authors |-> None, tags |-> Some(<<>>), metadata |-> None] }

\* score arguments of update_score: -1.0, 3.142 and 11.0 (below, inside and
\* above [0, 10]), and NaN.
ScoreArgs == {Num(-1000), Num(3142), Num(11000), NaN}

\* The statuses update_status accepts, and its status arguments in the
\* model: two of them and one that is none of them.
PaperStatuses == {"draft", "review", "published", "archived"}
StatusArgs == {"review", "published", "not-a-real-status"}

\* The add_paper calls before corpus_stats: those of PaperArgs and one whose
\* tags name the tag of the first twice.
StatsPaperArgs ==
    PaperArgs \cup
    { [title |-> <<"b", "-", "x">>, abstract |-> <<>>,
       authors |-> None, tags |-> Some(<< <<"a">>, <<"a">> >>), metadata |-> None] }

\* The status arguments of update_hypothesis before corpus_stats.
RateStatusArgs == {"confirmed", "refuted"}

\* The add_paper calls before get_paper collects hypotheses and citations:
\* two of PaperArgs with different titles.
GraphPaperArgs == {a \in PaperArgs : a.metadata = None}

\* The arguments of the calls whose time of call is recorded: a score and
\* NaN; a status and one that is rejected; a status for a hypothesis and a
\* confidence that is rejected.
StampScoreArgs == {Num(3142), NaN}
StampStatusArgs == {"review", "not-a-real-status"}
StampHypArgs ==
    { [status |-> Some("confirmed"), confidence |-> None, evidence |-> None],
      [status |-> None, confidence |-> Some(NaN), evidence |-> None] }

\* Every status update_status accepts and one it does not.
AllStatusArgs == PaperStatuses \cup {"not-a-real-status"}

\* A paper id no add_paper of the model returns.
NoSuchPaper == PaperId(<<"z">>, 0)

\* The text, confidence (in tenths) and evidence arguments of the
\* add_hypothesis calls of the model.
TextArgs == {<<"X">>, <<"Y">>}
HypArgs ==
    { [text |-> <<"X">>, confidence |-> Num(9), evidence |-> None],
      [text |-> <<"X">>, confidence |-> Num(-5), evidence |-> Some(<< <<"e">> >>)],
      [text |-> <<"Y">>, confidence |-> Num(5), evidence |-> Some(<< <<"e">> >>)],
      [text |-> <<"Y">>, confidence |-> NaN, evidence |-> Some(<<>>)] }

\* The status, confidence and evidence arguments of the update_hypothesis
\* calls of the model: each omitted (None) or supplied, alone and together.
HypStatuses == {"proposed", "testing", "confirmed", "refuted", "shelved"}
HypUpdateArgs ==
    { [status |-> None, confidence |-> None, evidence |-> None],
      [status |-> Some("confirmed"), confidence |-> None, evidence |-> None],
      [status |-> Some(""), confidence |-> None, evidence |-> None],
      [status |-> Some("not-a-status"), confidence |-> None, evidence |-> None],
      [status |-> None, confidence |-> Some(Num(14)), evidence |-> None],
      [status |-> None, confidence |-> Some(NaN), evidence |-> None],
      [status |-> None, confidence |-> None, evidence |-> Some(<<>>)],
      [status |-> None, confidence |-> None, evidence |-> Some(<< <<"f">>, <<"e">> >>)],
      [status |-> Some("refuted"), confidence |-> Some(Num(5)),
       evidence |-> Some(<< <<"e">> >>)] }

\* A hypothesis id no add_hypothesis of the model returns.
NoSuchHyp == HypId(NoSuchPaper, <<"z">>, 0)

\* The arguments of the add_citation calls of the model.
CitArgs ==
    { [ref_id |-> <<"r">>, title |-> <<"F">>, authors |-> Some(<< <<"B">> >>),
       year |-> Some(2020), url |-> <<>>, notes |-> <<>>],
      [ref_id |-> <<"r">>, title |-> <<"G">>, authors |-> None,
       year |-> None, url |-> <<"u">>, notes |-> <<"n">>] }

\* The add_paper calls of the searches: those of PaperArgs and one with a
\* title of two words.
SearchPaperArgs ==
    PaperArgs \cup
    { [title |-> <<"b", "-", "x">>, abstract |-> <<>>,
       authors |-> None, tags |-> None, metadata |-> None] }

\* The queries: the title "Ab" as it is and in lower case, a part of it that
\* is no word of it, a word of an abstract, a word of no paper, the empty
\* query, and a part of the title "b-x" with its "-".
QueryArgs ==
    { <<"A", "b">>, <<"a", "b">>, <<"b">>, <<"x">>, <<"z", "z">>, <<>>, <<"b", "-">> }

LimitArgs == {0, 1, MaxAdds}

\* The arguments of the list_papers calls: no filter; a score floor; a
\* status; a tag in another case than stored, with a limit below and at the
\* number of papers; an empty status and an empty tag; all filters at once.
ListArgs ==
    { [status |-> None, tag |-> None, min_score |-> Num(0), limit |-> MaxAdds],
      [status |-> None, tag |-> None, min_score |-> Num(3000), limit |-> 1],
      [status |-> Some("review"), tag |-> None, min_score |-> Num(0), limit |-> 1],
      [status |-> Some("review"), tag |-> None, min_score |-> Num(0), limit |-> MaxAdds],
      [status |-> None, tag |-> Some(<<"t">>), min_score |-> Num(0), limit |-> 1],
      [status |-> None, tag |-> Some(<<"t">>), min_score |-> Num(0), limit |-> MaxAdds],
      [status |-> Some(""), tag |-> Some(<<>>), min_score |-> Num(-1000), limit |-> 0],
      [status |-> Some("review"), tag |-> Some(<<"A">>), min_score |-> Num(3000),
       limit |-> MaxAdds] }

\* The arguments of the top_papers calls.
TopArgs ==
    { [n |-> 1, status |-> None],
      [n |-> MaxAdds, status |-> None],
      [n |-> 1, status |-> Some("review")],
      [n |-> MaxAdds, status |-> Some("review")] }

\* ------------------------------------------------------------------- state
VARIABLES
    clock,        \* the reading of datetime.now(timezone.utc)
    papers,       \* table papers, in rowid order
    papers_fts,   \* the index of the FTS5 table papers_fts, in rowid order
    hypotheses,   \* table hypotheses, in rowid order
    citations,    \* table citations, in rowid (id) order
    cit_seq,      \* sqlite_sequence of citations (AUTOINCREMENT)
    result,       \* the last call: its name, its arguments, the error raised (or
                  \* "none") and the value returned
    txn           \* the open transaction of a connection inside add_paper or
                  \* delete_paper: the tables as that connection sees them and
                  \* the statement it executes next; Idle when none is open.
                  \* The tables above are the committed ones, which every
                  \* other connection reads

vars == <<clock, papers, papers_fts, hypotheses, citations, cit_seq, result, txn>>
store == <<papers, papers_fts, hypotheses, citations, cit_seq>>

\* No transaction is open.
Idle == [op |-> "idle"]

Returned(op, args, v) == [args |-> args, err |-> "none", op |-> op, ret |-> Some(v)]
ReturnedNone(op, args) == [args |-> args, err |-> "none", op |-> op, ret |-> None]
Raised(op, args, e) == [args |-> args, err |-> e, op |-> op, ret |-> None]

\* _init_db on a new database file: the tables exist and are empty.
Init ==
    /\ clock = 0
    /\ papers = <<>>
    /\ papers_fts = <<>>
    /\ hypotheses = <<>>
    /\ citations = <<>>
    /\ cit_seq = 0
    /\ result = ReturnedNone("__init__", [db_path |-> None])
    /\ txn = Idle

\* ----------------------------------------------------------------- helpers
Range(s) == {s[i] : i \in DOMAIN s}

PaperIds == {papers[i].id : i \in DOMAIN papers}
HypIds == {hypotheses[i].id : i \in DOMAIN hypotheses}

\* The paper ids and hypothesis ids the calls of the model are made with.
PidArgs == PaperIds \cup {NoSuchPaper}
HidArgs == HypIds \cup {NoSuchHyp}

\* The rowid SQLite gives a new row of a table without AUTOINCREMENT: one more
\* than the largest rowid in use.
NextRowid(rows) == IF rows = <<>> THEN 1 ELSE rows[Len(rows)].rowid + 1

\* A variant of SetColumns that writes the new updated_at into created_at
\* too.
SetColumns_Recreated(r, set) ==
    [c \in DOMAIN r |->
        IF c \in DOMAIN set THEN set[c]
        ELSE IF c = "created_at" /\ "updated_at" \in DOMAIN set THEN set.updated_at
        ELSE r[c]]

\* Row r with the columns of the record set assigned.
SetColumns(r, set) ==
    [c \in DOMAIN r |-> IF c \in DOMAIN set THEN set[c] ELSE r[c]]

\* A variant of UpdateWhereId that leaves column updated_at as it is.
UpdateWhereId_KeepsUpdatedAt(rows, id, set) ==
    [i \in DOMAIN rows |->
        IF rows[i].id = id
        THEN SetColumns(rows[i], [c \in DOMAIN set \ {"updated_at"} |-> set[c]])
        ELSE rows[i]]

\* UPDATE t SET ... WHERE id = ?
UpdateWhereId(rows, id, set) ==
    [i \in DOMAIN rows |-> IF rows[i].id = id THEN SetColumns(rows[i], set) ELSE rows[i]]

\* A variant of DeleteWherePaperId that deletes nothing.
DeleteWherePaperId_Skipped(rows, id) == rows

\* DELETE FROM t WHERE paper_id = ?
DeleteWherePaperId(rows, id) == SelectSeq(rows, LAMBDA r : r.paper_id # id)

\* ----------------------------------------------------------------- actions
\* The clock advances between calls.
Tick ==
    /\ clock < MaxClock
    /\ clock' = clock + 1
    /\ UNCHANGED <<store, result, txn>>

\* A variant of NewPaperRow that writes the tags into column authors too.
NewPaperRow_TagsAsAuthors(pid, a, ts) ==
    [rowid      |-> NextRowid(papers),
     id         |-> pid,
     title      |-> a.title,
     abstract   |-> a.abstract,
     authors    |-> JsonDumps(OrElse(a.tags, <<>>)),
     tags       |-> JsonDumps(OrElse(a.tags, <<>>)),
     status     |-> "draft",
     score      |-> 0,
     created_at |-> ts,
     updated_at |-> ts,
     metadata   |-> JsonDumps(OrElseDict(a.metadata))]

\* The row add_paper inserts into papers.
NewPaperRow(pid, a, ts) ==
    [rowid      |-> NextRowid(papers),
     id         |-> pid,
     title      |-> a.title,
     abstract   |-> a.abstract,
     authors    |-> JsonDumps(OrElse(a.authors, <<>>)),
     tags       |-> JsonDumps(OrElse(a.tags, <<>>)),
     status     |-> "draft",
     score      |-> 0,
     created_at |-> ts,
     updated_at |-> ts,
     metadata   |-> JsonDumps(OrElseDict(a.metadata))]

\* The row add_paper inserts into papers_fts: the table has external content
\* (content='papers'), so the index keeps the rowid and the indexed text, and
\* column id is read from papers by rowid.
NewFtsRow(a) ==
    [rowid    |-> Len(papers_fts) + 1,
     title    |-> a.title,
     abstract |-> a.abstract,
     tags     |-> Join(OrElse(a.tags, <<>>))]

\* A variant of InsertOrIgnorePaper that replaces the stored row of the id.
InsertOrIgnorePaper_Replace(row) ==
    IF row.id \in PaperIds
    THEN [i \in DOMAIN papers |-> IF papers[i].id = row.id THEN row ELSE papers[i]]
    ELSE Append(papers, row)

\* INSERT OR IGNORE INTO papers: a row whose id is already stored is ignored.
InsertOrIgnorePaper(row) ==
    IF row.id \in PaperIds THEN papers ELSE Append(papers, row)

add_paper(a) ==
    LET pid == PaperId(a.title, clock)
        ts  == clock
    IN  /\ Len(papers_fts) < MaxAdds
        /\ papers' = InsertOrIgnorePaper(NewPaperRow(pid, a, ts))
        /\ papers_fts' = Append(papers_fts, NewFtsRow(a))
        /\ result' = Returned("add_paper", a, pid)
        /\ UNCHANGED <<clock, hypotheses, citations, cit_seq, txn>>

\* A variant of ClampScore without the upper bound.
ClampScore_NoUpperBound(score) == PyMax(Num(ScoreMin), score)

\* max(0.0, min(10.0, score)) of update_score.
ClampScore(score) == PyMax(Num(ScoreMin), PyMin(Num(ScoreMax), score))

\* A variant of update_score that raises KeyError for an id that is not
\* stored.
update_score_RaisesOnMissing(paper_id, score) ==
    /\ papers' = UpdateWhereId(papers, paper_id,
                     [score |-> ClampScore(score).n, updated_at |-> clock])
    /\ result' = IF paper_id \in PaperIds
                 THEN ReturnedNone("update_score", [paper_id |-> paper_id, score |-> score])
                 ELSE Raised("update_score", [paper_id |-> paper_id, score |-> score],
                             "KeyError")
    /\ UNCHANGED <<clock, papers_fts, hypotheses, citations, cit_seq, txn>>

\* UPDATE papers SET score=?, updated_at=? WHERE id=?: no row matches an
\* unknown id, and no error is raised.
update_score(paper_id, score) ==
    /\ papers' = UpdateWhereId(papers, paper_id,
                     [score |-> ClampScore(score).n, updated_at |-> clock])
    /\ result' = ReturnedNone("update_score", [paper_id |-> paper_id, score |-> score])
    /\ UNCHANGED <<clock, papers_fts, hypotheses, citations, cit_seq, txn>>

\* A variant of ValidStatus that rejects the empty status only.
ValidStatus_NonEmpty(status) == status # ""

\* `status not in valid` of update_status.
ValidStatus(status) == status \in PaperStatuses

\* A variant of update_status that lets a paper move forward only, along
\* draft, review, published, archived.
update_status_ForwardOnly(paper_id, status) ==
    LET args == [paper_id |-> paper_id, status |-> status]
        rank == [st \in PaperStatuses |->
                    CASE st = "draft" -> 1 [] st = "review" -> 2
                      [] st = "published" -> 3 [] OTHER -> 4]
        back == \E i \in DOMAIN papers :
                    papers[i].id = paper_id /\ rank[status] < rank[papers[i].status]
    IN
    /\ IF ~ValidStatus(status) \/ back
       THEN /\ result' = Raised("update_status", args, "ValueError")
            /\ UNCHANGED papers
       ELSE /\ papers' = UpdateWhereId(papers, paper_id,
                             [status |-> status, updated_at |-> clock])
            /\ result' = ReturnedNone("update_status", args)
    /\ UNCHANGED <<clock, papers_fts, hypotheses, citations, cit_seq, txn>>

update_status(paper_id, status) ==
    LET args == [paper_id |-> paper_id, status |-> status]
    IN
    /\ IF ~ValidStatus(status)
       THEN /\ result' = Raised("update_status", args, "ValueError")
            /\ UNCHANGED papers
       ELSE /\ papers' = UpdateWhereId(papers, paper_id,
                             [status |-> status, updated_at |-> clock])
            /\ result' = ReturnedNone("update_status", args)
    /\ UNCHANGED <<clock, papers_fts, hypotheses, citations, cit_seq, txn>>

\* A variant of delete_paper that returns true whatever it deleted.
delete_paper_AlwaysTrue(paper_id) ==
    /\ hypotheses' = DeleteWherePaperId(hypotheses, paper_id)
    /\ citations' = DeleteWherePaperId(citations, paper_id)
    /\ papers' = SelectSeq(papers, LAMBDA r : r.id # paper_id)
    /\ result' = Returned("delete_paper", [paper_id |-> paper_id], TRUE)
    /\ UNCHANGED <<clock, papers_fts, cit_seq, txn>>

\* DELETE FROM hypotheses, citations WHERE paper_id=?; DELETE FROM papers
\* WHERE id=?; returns cur.rowcount > 0.  papers_fts is not written.
delete_paper(paper_id) ==
    /\ hypotheses' = DeleteWherePaperId(hypotheses, paper_id)
    /\ citations' = DeleteWherePaperId(citations, paper_id)
    /\ papers' = SelectSeq(papers, LAMBDA r : r.id # paper_id)
    /\ result' = Returned("delete_paper", [paper_id |-> paper_id], paper_id \in PaperIds)
    /\ UNCHANGED <<clock, papers_fts, cit_seq, txn>>

\* The row add_hypothesis inserts: the confidence is stored as given.
NewHypRow(hid, paper_id, text, confidence, evidence, ts) ==
    [id         |-> hid,
     paper_id   |-> paper_id,
     text       |-> text,
     status     |-> "proposed",
     confidence |-> confidence.n,
     evidence   |-> JsonDumps(OrElse(evidence, <<>>)),
     created_at |-> ts,
     updated_at |-> ts]

\* INSERT INTO hypotheses: the primary key id must be new, and a NaN is bound
\* as NULL, which column confidence (NOT NULL) rejects.  No foreign key is
\* enforced (PRAGMA foreign_keys is off), so any paper_id is accepted.
add_hypothesis(paper_id, text, confidence, evidence) ==
    LET ts   == clock
        hid  == HypId(paper_id, text, ts)
        args == [paper_id |-> paper_id, text |-> text,
                 confidence |-> confidence, evidence |-> evidence]
    IN  /\ Len(hypotheses) < MaxHyps
        /\ IF hid \in HypIds \/ confidence.nan
           THEN /\ result' = Raised("add_hypothesis", args, "IntegrityError")
                /\ UNCHANGED hypotheses
           ELSE /\ hypotheses' = Append(hypotheses,
                       NewHypRow(hid, paper_id, text, confidence, evidence, ts))
                /\ result' = Returned("add_hypothesis", args, hid)
        /\ UNCHANGED <<clock, papers, papers_fts, citations, cit_seq, txn>>

\* new_status, new_confidence, ev_list of update_hypothesis.
NewStatus(status, row) == OrElseStr(status, row.status)
NewConfidence(confidence, row) ==
    IF confidence.some THEN confidence.v ELSE Num(row.confidence)
EvList(evidence, row) == OrElse(evidence, JsonLoads(row.evidence))

\* A variant of update_hypothesis that returns without an error when no row
\* has the id, as update_score does.
update_hypothesis_NoKeyError(hyp_id, status, confidence, evidence) ==
    LET args == [hyp_id |-> hyp_id, status |-> status,
                 confidence |-> confidence, evidence |-> evidence]
    IN
    /\ IF hyp_id \notin HypIds
       THEN /\ result' = ReturnedNone("update_hypothesis", args)
            /\ UNCHANGED hypotheses
       ELSE LET row == CHOOSE r \in Range(hypotheses) : r.id = hyp_id
            IN  IF NewConfidence(confidence, row).nan
                THEN /\ result' = Raised("update_hypothesis", args, "IntegrityError")
                     /\ UNCHANGED hypotheses
                ELSE /\ hypotheses' = UpdateWhereId(hypotheses, hyp_id,
                            [status     |-> NewStatus(status, row),
                             confidence |-> NewConfidence(confidence, row).n,
                             evidence   |-> JsonDumps(EvList(evidence, row)),
                             updated_at |-> clock])
                     /\ result' = ReturnedNone("update_hypothesis", args)
    /\ UNCHANGED <<clock, papers, papers_fts, citations, cit_seq, txn>>

update_hypothesis(hyp_id, status, confidence, evidence) ==
    LET args == [hyp_id |-> hyp_id, status |-> status,
                 confidence |-> confidence, evidence |-> evidence]
    IN
    /\ IF hyp_id \notin HypIds
       THEN /\ result' = Raised("update_hypothesis", args, "KeyError")
            /\ UNCHANGED hypotheses
       ELSE LET row == CHOOSE r \in Range(hypotheses) : r.id = hyp_id
            IN  IF NewConfidence(confidence, row).nan
                THEN /\ result' = Raised("update_hypothesis", args, "IntegrityError")
                     /\ UNCHANGED hypotheses
                ELSE /\ hypotheses' = UpdateWhereId(hypotheses, hyp_id,
                            [status     |-> NewStatus(status, row),
                             confidence |-> NewConfidence(confidence, row).n,
                             evidence   |-> JsonDumps(EvList(evidence, row)),
                             updated_at |-> clock])
                     /\ result' = ReturnedNone("update_hypothesis", args)
    /\ UNCHANGED <<clock, papers, papers_fts, citations, cit_seq, txn>>

\* The row add_citation inserts; its id is the next AUTOINCREMENT value.
NewCitRow(paper_id, c) ==
    [id       |-> cit_seq + 1,
     paper_id |-> paper_id,
     ref_id   |-> c.ref_id,
     title    |-> c.title,
     authors  |-> JsonDumps(OrElse(c.authors, <<>>)),
     year     |-> c.year,
     url      |-> c.url,
     notes    |-> c.notes]

\* A variant of add_citation that replaces the stored citation of the same
\* paper_id and ref_id, if there is one.
add_citation_Upsert(paper_id, c) ==
    /\ cit_seq < MaxCits
    /\ citations' =
           Append(SelectSeq(citations,
                            LAMBDA r : ~(r.paper_id = paper_id /\ r.ref_id = c.ref_id)),
                  NewCitRow(paper_id, c))
    /\ cit_seq' = cit_seq + 1
    /\ result' = ReturnedNone("add_citation", [paper_id |-> paper_id, citation |-> c])
    /\ UNCHANGED <<clock, papers, papers_fts, hypotheses, txn>>

add_citation(paper_id, c) ==
    /\ cit_seq < MaxCits
    /\ citations' = Append(citations, NewCitRow(paper_id, c))
    /\ cit_seq' = cit_seq + 1
    /\ result' = ReturnedNone("add_citation", [paper_id |-> paper_id, citation |-> c])
    /\ UNCHANGED <<clock, papers, papers_fts, hypotheses, txn>>

\* ----------------------------------------------------------------- queries
NotFound == [found |-> FALSE]

\* The Hypothesis and Citation objects _row_to_paper builds from a row: the
\* JSON columns decoded, paper_id (and the citation's id) left out.
RowToHypothesis(h) ==
    [id         |-> h.id,
     text       |-> h.text,
     status     |-> h.status,
     confidence |-> h.confidence,
     evidence   |-> JsonLoads(h.evidence),
     created_at |-> h.created_at,
     updated_at |-> h.updated_at]

RowToCitation(c) ==
    [ref_id  |-> c.ref_id,
     title   |-> c.title,
     authors |-> JsonLoads(c.authors),
     year    |-> c.year,
     url     |-> c.url,
     notes   |-> c.notes]

\* A variant of WherePaperId that selects every row of the table.
WherePaperId_AllRows(rows, id) == rows

\* SELECT * FROM t WHERE paper_id = ?: the matching rows in rowid order
\* (for hypotheses ORDER BY created_at, which the rowid order already has
\* since the clock never goes back).
WherePaperId(rows, id) == SelectSeq(rows, LAMBDA r : r.paper_id = id)

\* _row_to_paper: the paper row with its hypotheses and citations.
RowToPaper(row, hyps, cits) ==
    LET hyp_rows == WherePaperId(hyps, row.id)
        cit_rows == WherePaperId(cits, row.id)
    IN
    [found      |-> TRUE,
     id         |-> row.id,
     title      |-> row.title,
     abstract   |-> row.abstract,
     authors    |-> JsonLoads(row.authors),
     tags       |-> JsonLoads(row.tags),
     hypotheses |-> [i \in DOMAIN hyp_rows |-> RowToHypothesis(hyp_rows[i])],
     citations  |-> [i \in DOMAIN cit_rows |-> RowToCitation(cit_rows[i])],
     status     |-> row.status,
     score      |-> row.score,
     created_at |-> row.created_at,
     updated_at |-> row.updated_at,
     metadata   |-> JsonLoads(row.metadata)]

\* get_paper(paper_id) on the tables ps, hyps, cits: None when no row has
\* the id.
GetPaper(ps, hyps, cits, paper_id) ==
    IF \E i \in DOMAIN ps : ps[i].id = paper_id
    THEN RowToPaper(CHOOSE r \in Range(ps) : r.id = paper_id, hyps, cits)
    ELSE NotFound

get_paper(paper_id) == GetPaper(papers, hypotheses, citations, paper_id)

\* _row_to_summary: the summary dict of a paper row.
RowToSummary(row) ==
    [id         |-> row.id,
     title      |-> row.title,
     status     |-> row.status,
     score      |-> row.score,
     authors    |-> JsonLoads(row.authors),
     tags       |-> JsonLoads(row.tags),
     created_at |-> row.created_at]

\* LIMIT n of SQLite: the first n rows; a negative n is no limit.
Limit(rows, n) ==
    IF n < 0 \/ n >= Len(rows) THEN rows ELSE SubSeq(rows, 1, n)

\* A character the tokenizer of FTS5 (unicode61) keeps in a token: a letter
\* or a digit; tokens are compared in lower case.
IsTokenChar(c) == IsSlugChar(Lower(c))

\* The tokens of a text in order: its maximal runs of token characters, in
\* lower case.  cur is the token being read.
RECURSIVE Tokenize(_, _)
Tokenize(text, cur) ==
    LET done == IF cur = <<>> THEN <<>> ELSE <<cur>>
    IN  IF text = <<>> THEN done
        ELSE IF IsTokenChar(Head(text))
             THEN Tokenize(Tail(text), Append(cur, Lower(Head(text))))
             ELSE done \o Tokenize(Tail(text), <<>>)

Tokens(text) == Range(Tokenize(text, <<>>))

\* The tokens FTS5 indexes for a row of papers_fts: those of the three
\* indexed columns.
FtsTokens(f) == Tokens(f.title) \cup Tokens(f.abstract) \cup Tokens(f.tags)

\* Whether FTS5 rejects a MATCH argument with sqlite3.OperationalError, for
\* arguments made of letters, digits, spaces and "-" that hold none of the
\* words AND, OR, NOT: an argument without a token is a syntax error, and a
\* "-" is read as the start of a column filter naming no column.
FtsSyntaxError(query) ==
    \/ Tokenize(query, <<>>) = <<>>
    \/ \E i \in DOMAIN query : query[i] = "-"

\* papers_fts MATCH query for such an argument: the rows (by rowid) that hold
\* every token of the query in some indexed column.
FtsMatch(fts, query) ==
    {fts[i].rowid : i \in {j \in DOMAIN fts : Tokens(query) \subseteq FtsTokens(fts[j])}}

\* ORDER BY rank: the bm25 rank of FTS5 is not computed here; every order of
\* the matching rows is taken as possible.
RankOrders(rowids) ==
    {o \in [1..Cardinality(rowids) -> rowids] :
        \A i, j \in DOMAIN o : o[i] = o[j] => i = j}

\* Whether table ps has a row with that rowid: papers_fts has external
\* content (content='papers'), so its column id is read from there.
HasRowid(ps, rowid) == \E i \in DOMAIN ps : ps[i].rowid = rowid

\* needle occurs in hay as a substring.
Contains(hay, needle) ==
    \E i \in 0..(Len(hay) - Len(needle)) : SubSeq(hay, i + 1, i + Len(needle)) = needle

\* The text json.dumps writes for a list of strings: ["a", "b"].
RECURSIVE JsonItems(_)
JsonItems(list) ==
    IF list = <<>> THEN <<>>
    ELSE <<"\"">> \o list[1] \o <<"\"">>
         \o (IF Len(list) = 1 THEN <<>> ELSE <<",", " ">> \o JsonItems(Tail(list)))

JsonText(list) == <<"[">> \o JsonItems(list) \o <<"]">>

\* The fallback of search: the rows with q in lower(title), lower(abstract)
\* or lower(tags), the latter being the JSON text of the column, in rowid
\* order, up to the limit.
SearchLike(ps, q, limit) ==
    LET rows == SelectSeq(ps, LAMBDA r :
                    \/ Contains(LowerStr(r.title), q)
                    \/ Contains(LowerStr(r.abstract), q)
                    \/ Contains(LowerStr(JsonText(JsonLoads(r.tags))), q))
        hits == Limit(rows, limit)
    IN  [i \in DOMAIN hits |-> RowToSummary(hits[i])]

\* A variant of search whose index rows carry the title they were inserted
\* with and are joined to papers by it, not by rowid: an index row of a
\* repeated add_paper then leads to the stored paper once more.
search_JoinOnTitle(query, limit) ==
    LET args == [query |-> query, limit |-> limit]
        title(rowid) == (CHOOSE f \in Range(papers_fts) : f.rowid = rowid).title
    IN  /\ IF FtsSyntaxError(query)
           THEN result' = Returned("search", args, SearchLike(papers, LowerStr(query), limit))
           ELSE \E order \in RankOrders(FtsMatch(papers_fts, query)) :
                    LET hits == Limit(order, limit)
                    IN  IF \E k \in DOMAIN hits :
                               \A r \in Range(papers) : r.title # title(hits[k])
                        THEN result' = Raised("search", args, "DatabaseError")
                        ELSE result' = Returned("search", args,
                                 [k \in DOMAIN hits |->
                                     RowToSummary(CHOOSE r \in Range(papers) :
                                                      r.title = title(hits[k]))])
        /\ UNCHANGED <<clock, store, txn>>

\* search(query, limit): the ranked query, whose rows come from papers by the
\* rowid of each matching index row within the limit (sqlite3.DatabaseError
\* 'database disk image is malformed' when papers has no such row, which the
\* method does not catch); the LIKE query when FTS5 rejects the argument.
search(query, limit) ==
    LET args == [query |-> query, limit |-> limit]
    IN  /\ IF FtsSyntaxError(query)
           THEN result' = Returned("search", args, SearchLike(papers, LowerStr(query), limit))
           ELSE \E order \in RankOrders(FtsMatch(papers_fts, query)) :
                    LET hits == Limit(order, limit)
                    IN  IF \E k \in DOMAIN hits : ~HasRowid(papers, hits[k])
                        THEN result' = Raised("search", args, "DatabaseError")
                        ELSE result' = Returned("search", args,
                                 [k \in DOMAIN hits |->
                                     RowToSummary(CHOOSE r \in Range(papers) :
                                                      r.rowid = hits[k])])
        /\ UNCHANGED <<clock, store, txn>>

\* Row a comes no later than row b in ORDER BY score DESC.  SQL leaves the
\* order of rows of equal score open; SQLite reads them from the index on
\* score backwards (larger rowid first) when score is the only filter, and
\* sorts the rows of the index on status (smaller rowid first) when a status
\* is given.
ScoreDescBefore(a, b, by_status) ==
    \/ a.score > b.score
    \/ a.score = b.score /\ (IF by_status THEN a.rowid <= b.rowid ELSE a.rowid >= b.rowid)

RECURSIVE OrderByScoreDesc(_, _)
OrderByScoreDesc(rows, by_status) ==
    IF rows = {} THEN <<>>
    ELSE LET first == CHOOSE a \in rows : \A b \in rows : ScoreDescBefore(a, b, by_status)
         IN  <<first>> \o OrderByScoreDesc(rows \ {first}, by_status)

\* A variant of ListWhere without the status.
ListWhere_ScoreOnly(row, status, min_score) ==
    /\ ~min_score.nan
    /\ row.score >= min_score.n

\* The WHERE clause of list_papers: score >= min_score (false for every row
\* when min_score is NaN), and status = ? when `if status:` holds.
ListWhere(row, status, min_score) ==
    /\ ~min_score.nan
    /\ row.score >= min_score.n
    /\ OrElseStr(status, "") # "" => row.status = status.v

\* tag.lower() in [t.lower() for t in r["tags"]]
HasTag(summary, tag) ==
    \E i \in DOMAIN summary.tags : LowerStr(summary.tags[i]) = LowerStr(tag)

\* A variant of ListPapers that filters by tag before it applies the limit.
ListPapers_TagBeforeLimit(ps, status, tag, min_score, limit) ==
    LET rows == OrderByScoreDesc({r \in Range(ps) : ListWhere(r, status, min_score)},
                                 OrElseStr(status, "") # "")
        all  == [i \in DOMAIN rows |-> RowToSummary(rows[i])]
    IN  IF OrElse(tag, <<>>) # <<>>
        THEN Limit(SelectSeq(all, LAMBDA r : HasTag(r, tag.v)), limit)
        ELSE Limit(all, limit)

\* list_papers on table ps: the rows of the WHERE clause by score descending
\* up to the limit, as summaries, and of these the ones with the tag when
\* `if tag:` holds.
ListPapers(ps, status, tag, min_score, limit) ==
    LET rows == Limit(OrderByScoreDesc({r \in Range(ps) : ListWhere(r, status, min_score)},
                                       OrElseStr(status, "") # ""),
                      limit)
        res  == [i \in DOMAIN rows |-> RowToSummary(rows[i])]
    IN  IF OrElse(tag, <<>>) # <<>>
        THEN SelectSeq(res, LAMBDA r : HasTag(r, tag.v))
        ELSE res

list_papers(status, tag, min_score, limit) ==
    /\ result' = Returned("list_papers",
                      [status |-> status, tag |-> tag, min_score |-> min_score,
                       limit |-> limit],
                      ListPapers(papers, status, tag, min_score, limit))
    /\ UNCHANGED <<clock, store, txn>>

\* A variant of top_papers that ignores the status.
top_papers_AnyStatus(n, status) ==
    /\ result' = Returned("top_papers", [n |-> n, status |-> status],
                      ListPapers(papers, None, None, Num(0), n))
    /\ UNCHANGED <<clock, store, txn>>

\* top_papers(n, status): list_papers(status=status, limit=n).
top_papers(n, status) ==
    /\ result' = Returned("top_papers", [n |-> n, status |-> status],
                      ListPapers(papers, status, None, Num(0), n))
    /\ UNCHANGED <<clock, store, txn>>

\* round(num / den, k) as a count of units of 10^-k, num / den being given in
\* those units: the nearest integer, and of two equally near the even one.
\* (Python rounds the binary float: a decimal tie that is no exact float goes
\* the way of its binary value.  The scores of the model give no tie, and a
\* quotient of two small counts that is a tie is an exact float.)
RoundHalfEven(num, den) ==
    LET q == num \div den
        r == num % den
    IN  IF 2 * r < den THEN q
        ELSE IF 2 * r > den THEN q + 1
        ELSE IF q % 2 = 0 THEN q ELSE q + 1

RECURSIVE SumScore(_)
SumScore(rows) == IF rows = <<>> THEN 0 ELSE rows[1].score + SumScore(Tail(rows))

\* A variant of AvgScore that averages over every row, those of score 0
\* included.
AvgScore_AllRows(ps) ==
    IF ps = <<>> THEN 0 ELSE RoundHalfEven(SumScore(ps), 10 * Len(ps))

\* round(AVG(score) WHERE score > 0 or 0.0, 2), in hundredths: AVG is NULL
\* when no row has score > 0.  Scores are in thousandths, so the sum over
\* 10 n is the mean in hundredths.
AvgScore(ps) ==
    LET rows == SelectSeq(ps, LAMBDA r : r.score > 0)
    IN  IF rows = <<>> THEN 0 ELSE RoundHalfEven(SumScore(rows), 10 * Len(rows))

\* A variant of ConfirmationRate that cuts the quotient off after three
\* decimals instead of rounding it.
ConfirmationRate_Truncated(confirmed, hyp_count) ==
    IF hyp_count = 0 THEN 0 ELSE (1000 * confirmed) \div hyp_count

\* round(confirmed / hyp_count, 3) if hyp_count else 0.0, in thousandths.
ConfirmationRate(confirmed, hyp_count) ==
    IF hyp_count = 0 THEN 0 ELSE RoundHalfEven(1000 * confirmed, hyp_count)

\* The tags of the rows of papers, row after row: what the loops over
\* tag_rows and json.loads(tags_json) visit.
RECURSIVE TagOccurrences(_)
TagOccurrences(ps) ==
    IF ps = <<>> THEN <<>> ELSE JsonLoads(ps[1].tags) \o TagOccurrences(Tail(ps))

\* The keys of dict all_tags in insertion order: each tag at its first
\* occurrence.
RECURSIVE FirstOccurrences(_)
FirstOccurrences(occ) ==
    IF occ = <<>> THEN <<>>
    ELSE LET init == FirstOccurrences(SubSeq(occ, 1, Len(occ) - 1))
             last == occ[Len(occ)]
         IN  IF \E i \in DOMAIN init : init[i] = last THEN init ELSE Append(init, last)

\* all_tags[t]: one for every occurrence of t.
TagCount(occ, t) == Cardinality({i \in DOMAIN occ : occ[i] = t})

\* sorted(items, key=count, reverse=True): by count descending, items of equal
\* count in the order they had (the sort is stable).
RECURSIVE SortedByCountDesc(_)
SortedByCountDesc(items) ==
    IF items = <<>> THEN <<>>
    ELSE LET best == CHOOSE i \in DOMAIN items :
                         /\ \A j \in DOMAIN items : items[j][2] <= items[i][2]
                         /\ \A j \in 1..(i - 1) : items[j][2] < items[i][2]
         IN  <<items[best]>> \o
             SortedByCountDesc([k \in 1..(Len(items) - 1) |->
                                   IF k < best THEN items[k] ELSE items[k + 1]])

TopTags(ps) ==
    LET occ  == TagOccurrences(ps)
        keys == FirstOccurrences(occ)
    IN  Truncate(SortedByCountDesc([i \in DOMAIN keys |-> <<keys[i], TagCount(occ, keys[i])>>]),
                 TopTagsLen)

\* dict(SELECT status, COUNT(*) FROM papers GROUP BY status)
ByStatus(ps) ==
    [st \in {ps[i].status : i \in DOMAIN ps} |->
        Cardinality({i \in DOMAIN ps : ps[i].status = st})]

CorpusStats(ps, hyps) ==
    LET confirmed == Cardinality({i \in DOMAIN hyps : hyps[i].status = "confirmed"})
    IN  [total_papers         |-> Len(ps),
         by_status            |-> ByStatus(ps),
         avg_score            |-> AvgScore(ps),
         total_hypotheses     |-> Len(hyps),
         confirmed_hypotheses |-> confirmed,
         confirmation_rate    |-> ConfirmationRate(confirmed, Len(hyps)),
         top_tags             |-> TopTags(ps)]

corpus_stats ==
    /\ result' = Returned("corpus_stats", [self |-> None], CorpusStats(papers, hypotheses))
    /\ UNCHANGED <<clock, store, txn>>

\* ------------------------------------------------------------ transactions
\* add_paper and delete_paper statement by statement.  `with
\* sqlite3.connect(...) as con` runs the statements of its block in one
\* transaction: the first INSERT or DELETE opens it, leaving the block commits
\* it and an exception inside the block rolls it back.  Until the commit the
\* changes are in txn only: another connection reads the committed tables,
\* and a process that dies leaves them as they are (the journal is rolled
\* back when the file is opened next).

\* The transaction a first statement of op opens, before that statement acts.
Begun(op, args, ret) ==
    [op |-> op, args |-> args, ret |-> ret, pc |-> "begin",
     papers |-> papers, papers_fts |-> papers_fts,
     hypotheses |-> hypotheses, citations |-> citations]

\* A variant of add_paper_papers on a connection in autocommit mode: the row
\* is in table papers as soon as the statement has run.
add_paper_papers_Autocommit(a) ==
    LET pid == PaperId(a.title, clock)
        ts  == clock
    IN  /\ txn = Idle
        /\ Len(papers_fts) < MaxAdds
        /\ papers' = InsertOrIgnorePaper(NewPaperRow(pid, a, ts))
        /\ txn' = [Begun("add_paper", a, Some(pid)) EXCEPT
                      !.papers = InsertOrIgnorePaper(NewPaperRow(pid, a, ts)),
                      !.pc = "papers_fts"]
        /\ UNCHANGED <<clock, papers_fts, hypotheses, citations, cit_seq, result>>

\* add_paper up to and including INSERT OR IGNORE INTO papers.
add_paper_papers(a) ==
    LET pid == PaperId(a.title, clock)
        ts  == clock
    IN  /\ txn = Idle
        /\ Len(papers_fts) < MaxAdds
        /\ txn' = [Begun("add_paper", a, Some(pid)) EXCEPT
                      !.papers = InsertOrIgnorePaper(NewPaperRow(pid, a, ts)),
                      !.pc = "papers_fts"]
        /\ UNCHANGED <<clock, store, result>>

\* INSERT OR IGNORE INTO papers_fts of add_paper.
add_paper_fts ==
    /\ txn.op = "add_paper"
    /\ txn.pc = "papers_fts"
    /\ txn' = [txn EXCEPT !.papers_fts = Append(@, NewFtsRow(txn.args)),
                          !.pc = "commit"]
    /\ UNCHANGED <<clock, store, result>>

\* delete_paper up to and including DELETE FROM hypotheses.
delete_paper_hypotheses(paper_id) ==
    /\ txn = Idle
    /\ txn' = [Begun("delete_paper", [paper_id |-> paper_id], None) EXCEPT
                  !.hypotheses = DeleteWherePaperId(hypotheses, paper_id),
                  !.pc = "citations"]
    /\ UNCHANGED <<clock, store, result>>

\* DELETE FROM citations of delete_paper.
delete_paper_citations ==
    /\ txn.op = "delete_paper"
    /\ txn.pc = "citations"
    /\ txn' = [txn EXCEPT !.citations = DeleteWherePaperId(@, txn.args.paper_id),
                          !.pc = "papers"]
    /\ UNCHANGED <<clock, store, result>>

\* DELETE FROM papers of delete_paper, and cur.rowcount > 0.
delete_paper_papers ==
    /\ txn.op = "delete_paper"
    /\ txn.pc = "papers"
    /\ txn' = [txn EXCEPT
                  !.papers = SelectSeq(@, LAMBDA r : r.id # txn.args.paper_id),
                  !.ret = Some(\E i \in DOMAIN txn.papers :
                                  txn.papers[i].id = txn.args.paper_id),
                  !.pc = "commit"]
    /\ UNCHANGED <<clock, store, result>>

\* The block of the `with` is left: the transaction is committed and the call
\* returns.
Commit ==
    /\ txn # Idle
    /\ txn.pc = "commit"
    /\ papers' = txn.papers
    /\ papers_fts' = txn.papers_fts
    /\ hypotheses' = txn.hypotheses
    /\ citations' = txn.citations
    /\ result' = [args |-> txn.args, err |-> "none", op |-> txn.op, ret |-> txn.ret]
    /\ txn' = Idle
    /\ UNCHANGED <<clock, cit_seq>>

\* The call fails or the process is interrupted with the transaction open,
\* after any of its statements: the transaction is rolled back.
Rollback ==
    /\ txn # Idle
    /\ result' = Raised(txn.op, txn.args, "Interrupted")
    /\ txn' = Idle
    /\ UNCHANGED <<clock, store>>

\* --------------------------------------------------------------------- spec
\* Every call of the store, with every argument of the model.
Next ==
    \/ Tick
    \/ \E a \in PaperArgs : add_paper(a)
    \/ \E id \in PidArgs, s \in ScoreArgs : update_score(id, s)
    \/ \E id \in PidArgs, s \in StatusArgs : update_status(id, s)
    \/ \E id \in PidArgs : delete_paper(id)
    \/ \E id \in PidArgs, a \in HypArgs :
           add_hypothesis(id, a.text, a.confidence, a.evidence)
    \/ \E h \in HidArgs, a \in HypUpdateArgs :
           update_hypothesis(h, a.status, a.confidence, a.evidence)
    \/ \E id \in PidArgs, c \in CitArgs : add_citation(id, c)
    \/ \E q \in QueryArgs, l \in LimitArgs : search(q, l)
    \/ \E a \in ListArgs : list_papers(a.status, a.tag, a.min_score, a.limit)
    \/ \E a \in TopArgs : top_papers(a.n, a.status)
    \/ corpus_stats

Spec == Init /\ [][Next]_vars

\* The calls that read or write papers and papers_fts only.
NextPapers ==
    \/ Tick
    \/ \E a \in PaperArgs : add_paper(a)
    \/ \E id \in PaperIds, s \in ScoreArgs : update_score(id, s)
    \/ update_score(NoSuchPaper, Num(3142))
    \/ \E id \in PaperIds, s \in StatusArgs : update_status(id, s)
    \/ update_status(NoSuchPaper, "review")
    \/ \E id \in PidArgs : delete_paper(id)

SpecPapers == Init /\ [][NextPapers]_vars

\* The calls that read or write hypotheses only (add_hypothesis checks no
\* paper_id, so the papers table plays no part).
NextHyps ==
    \/ \E id \in PidArgs, a \in HypArgs :
           add_hypothesis(id, a.text, a.confidence, a.evidence)
    \/ \E h \in HidArgs, a \in HypUpdateArgs :
           update_hypothesis(h, a.status, a.confidence, a.evidence)

SpecHyps == Init /\ [][NextHyps]_vars

\* The calls that insert and delete rows across the three tables.
NextStore ==
    \/ Tick
    \/ \E a \in PaperArgs : add_paper(a)
    \/ \E id \in PidArgs : delete_paper(id)
    \/ \E id \in PidArgs, t \in TextArgs : add_hypothesis(id, t, Num(9), None)
    \/ \E id \in PidArgs, c \in CitArgs : cit_seq < StoreCits /\ add_citation(id, c)

SpecStore == Init /\ [][NextStore]_vars

\* add_paper, delete_paper and search.
NextSearch ==
    \/ Tick
    \/ \E a \in SearchPaperArgs : add_paper(a)
    \/ \E id \in PaperIds : delete_paper(id)
    \/ \E q \in QueryArgs, l \in LimitArgs : search(q, l)

SpecSearch == Init /\ [][NextSearch]_vars

\* add_paper, update_score, update_status and the two listings.
NextList ==
    \/ Tick
    \/ \E a \in PaperArgs : add_paper(a)
    \/ \E id \in PaperIds, s \in ScoreArgs : update_score(id, s)
    \/ \E id \in PaperIds : update_status(id, "review")
    \/ \E a \in ListArgs : list_papers(a.status, a.tag, a.min_score, a.limit)
    \/ \E a \in TopArgs : top_papers(a.n, a.status)

SpecList == Init /\ [][NextList]_vars

\* Every id add_paper can return within the bounds, and one it cannot.
EverPaperIds ==
    {PaperId(a.title, t) : a \in PaperArgs, t \in 0..MaxClock} \cup {NoSuchPaper}

\* add_paper and delete_paper, the latter also with ids that are stored no
\* longer or not yet.
NextDelete ==
    \/ Tick
    \/ \E a \in PaperArgs : add_paper(a)
    \/ \E id \in EverPaperIds : delete_paper(id)

SpecDelete == Init /\ [][NextDelete]_vars

\* add_hypothesis, update_hypothesis of the status alone, and corpus_stats.
NextRate ==
    \/ Tick
    \/ \E id \in PidArgs, t \in TextArgs : add_hypothesis(id, t, Num(9), None)
    \/ \E h \in HypIds, st \in RateStatusArgs :
           update_hypothesis(h, Some(st), None, None)
    \/ corpus_stats

SpecRate == Init /\ [][NextRate]_vars

\* add_paper, update_score and corpus_stats.
NextAvg ==
    \/ Tick
    \/ \E a \in PaperArgs : add_paper(a)
    \/ \E id \in PaperIds, sc \in ScoreArgs : update_score(id, sc)
    \/ corpus_stats

SpecAvg == Init /\ [][NextAvg]_vars

\* add_paper, update_status, delete_paper and corpus_stats.
NextTags ==
    \/ Tick
    \/ \E a \in StatsPaperArgs : add_paper(a)
    \/ \E id \in PaperIds, st \in StatusArgs : update_status(id, st)
    \/ \E id \in PaperIds : delete_paper(id)
    \/ corpus_stats

SpecTags == Init /\ [][NextTags]_vars

\* add_paper and update_status with each of the four statuses.
NextStatus ==
    \/ Tick
    \/ \E a \in PaperArgs : add_paper(a)
    \/ \E id \in PaperIds, st \in AllStatusArgs : update_status(id, st)

SpecStatus == Init /\ [][NextStatus]_vars

\* add_paper and delete_paper statement by statement, with the commit and the
\* rollback of their transaction; add_hypothesis and add_citation of another
\* caller, which as writers wait until no transaction is open; and
\* corpus_stats of another connection, which reads at any moment.
NextAtomic ==
    \/ Tick
    \/ \E a \in PaperArgs : add_paper_papers(a)
    \/ add_paper_fts
    \/ \E id \in PidArgs : delete_paper_hypotheses(id)
    \/ delete_paper_citations
    \/ delete_paper_papers
    \/ Commit
    \/ Rollback
    \/ \E id \in PaperIds : txn = Idle /\ add_hypothesis(id, <<"X">>, Num(9), None)
    \/ \E id \in PaperIds, c \in CitArgs :
           txn = Idle /\ cit_seq < StoreCits /\ add_citation(id, c)
    \/ corpus_stats

SpecAtomic == Init /\ [][NextAtomic]_vars

\* add_paper, add_hypothesis and add_citation: the rows get_paper collects.
NextGraph ==
    \/ Tick
    \/ \E a \in GraphPaperArgs : add_paper(a)
    \/ \E id \in PaperIds, t \in TextArgs : add_hypothesis(id, t, Num(9), None)
    \/ \E id \in PaperIds, c \in CitArgs : add_citation(id, c)

SpecGraph == Init /\ [][NextGraph]_vars


\* The calls that write created_at or updated_at, and the clock.
NextStamps ==
    \/ Tick
    \/ \E a \in GraphPaperArgs : add_paper(a)
    \/ \E id \in PaperIds, sc \in StampScoreArgs : update_score(id, sc)
    \/ \E id \in PaperIds, st \in StampStatusArgs : update_status(id, st)
    \/ \E id \in PaperIds :
           Len(hypotheses) < StampHyps /\ add_hypothesis(id, <<"X">>, Num(9), None)
    \/ \E h \in HypIds, a \in StampHypArgs :
           update_hypothesis(h, a.status, a.confidence, a.evidence)

SpecStamps == Init /\ [][NextStamps]_vars

\* add_citation, with every other call that writes to the store.
NextCits ==
    \/ \E a \in GraphPaperArgs : add_paper(a)
    \/ \E id \in PidArgs, c \in CitArgs : add_citation(id, c)
    \/ \E id \in PidArgs : delete_paper(id)
    \/ \E id \in PaperIds : update_score(id, Num(3142))
    \/ \E id \in PaperIds : update_status(id, "review")
    \/ \E id \in PaperIds : add_hypothesis(id, <<"X">>, Num(9), None)
    \/ \E h \in HypIds : update_hypothesis(h, Some("confirmed"), None, None)

SpecCits == Init /\ [][NextCits]_vars

\* update_score and update_status on a store with papers, a hypothesis and a
\* citation.
NextFrame ==
    \/ Tick
    \/ \E a \in GraphPaperArgs : add_paper(a)
    \/ \E id \in PaperIds :
           Len(hypotheses) < StampHyps /\ add_hypothesis(id, <<"X">>, Num(9), None)
    \/ \E id \in PaperIds, c \in CitArgs : cit_seq < StoreCits /\ add_citation(id, c)
    \/ \E id \in PidArgs, sc \in StampScoreArgs : update_score(id, sc)
    \/ \E id \in PidArgs, st \in StampStatusArgs : update_status(id, st)

SpecFrame == Init /\ [][NextFrame]_vars

\* ------------------------------------------------------------------ claims
\* The value an optional list argument stands for: the list, or [] when
\* the argument is omitted.
Given(x) == IF x.some THEN x.v ELSE <<>>

\* The step is a call of op (and not a tick of the clock after one).
Called(op) == result'.op = op /\ clock' = clock

\* What get_paper(id) returns after the step.
GetPaperAfter(id) == GetPaper(papers', hypotheses', citations', id)

\* After an add_paper step: get_paper of the returned id has the title,
\* abstract, authors and tags of the call.
RoundTrips ==
    LET a == result'.args
        p == GetPaperAfter(result'.ret.v)
    IN  /\ p.found
        /\ p.title = a.title
        /\ p.abstract = a.abstract
        /\ p.authors = Given(a.authors)
        /\ p.tags = Given(a.tags)

\* C1 as stated: after every add_paper call with a non-empty title,
\* get_paper of the returned id has the title, abstract, authors and tags of
\* the call, in the same order.
C1_RoundTripAlways ==
    [][(Called("add_paper") /\ result'.args.title # <<>>) => RoundTrips]_vars

\* C1 amended: the round trip holds for every add_paper call with a
\* non-empty title whose returned id is not the id of a paper that is
\* stored when the call is made.
C1_RoundTripNewId ==
    [][(/\ Called("add_paper")
        /\ result'.args.title # <<>>
        /\ result'.ret.v \notin PaperIds) => RoundTrips]_vars

\* C1 witness: add_paper has just stored a second paper, with a non-empty
\* title and two tags, under the id it returned.
C1_Witness ==
    /\ result.op = "add_paper"
    /\ Len(papers) = 2
    /\ papers[2].id = result.ret.v
    /\ result.args.title # <<>>
    /\ Len(get_paper(result.ret.v).tags) = 2

\* C2: every stored hypothesis and every stored citation has the paper_id of
\* a stored paper.
C2_ReferentialIntegrity ==
    /\ \A i \in DOMAIN hypotheses : hypotheses[i].paper_id \in PaperIds
    /\ \A i \in DOMAIN citations : citations[i].paper_id \in PaperIds

\* The projection row of paper row p: the papers_fts entry with p's rowid
\* holds p's title, abstract and tags.
HasProjection(p) ==
    \E i \in DOMAIN papers_fts :
        /\ papers_fts[i].rowid = p.rowid
        /\ papers_fts[i].title = p.title
        /\ papers_fts[i].abstract = p.abstract
        /\ papers_fts[i].tags = Join(JsonLoads(p.tags))

\* C3: the papers with a projection row are exactly the stored papers, and
\* each projection row holds the title, abstract and tags of its paper.
C3_ProjectionInLockstep ==
    /\ \A i \in DOMAIN papers : HasProjection(papers[i])
    /\ \A i \in DOMAIN papers_fts :
           \E j \in DOMAIN papers :
               /\ papers[j].rowid = papers_fts[i].rowid
               /\ HasProjection(papers[j])

\* C4: after delete_paper(id) on a stored paper, get_paper(id) is not found
\* and no hypothesis or citation whose paper_id was id is stored, so no
\* get_paper returns one of those hypotheses.
C4_CascadingDelete ==
    [][(Called("delete_paper") /\ result'.args.paper_id \in PaperIds) =>
          LET id   == result'.args.paper_id
              gone == {hypotheses[i].id : i \in {j \in DOMAIN hypotheses :
                                                   hypotheses[j].paper_id = id}}
          IN  /\ ~GetPaperAfter(id).found
              /\ \A i \in DOMAIN hypotheses' :
                     hypotheses'[i].paper_id # id /\ hypotheses'[i].id \notin gone
              /\ \A i \in DOMAIN citations' : citations'[i].paper_id # id
              /\ \A q \in PidArgs :
                     LET p == GetPaperAfter(q)
                     IN  p.found =>
                             \A i \in DOMAIN p.hypotheses : p.hypotheses[i].id \notin gone]_vars

\* C4 witness: delete_paper has removed a stored paper while another paper
\* stays, and the one citation ever stored is gone.
C4_Witness ==
    /\ result.op = "delete_paper"
    /\ result.ret.v
    /\ papers # <<>>
    /\ cit_seq > 0
    /\ citations = <<>>

\* The closed interval of a confidence, in tenths.
ConfMin == 0
ConfMax == 10

\* C5: every stored hypothesis has its confidence in [0.0, 1.0].
C5_ConfidenceInRange ==
    \A i \in DOMAIN hypotheses :
        ConfMin <= hypotheses[i].confidence /\ hypotheses[i].confidence <= ConfMax

ScoreInRange ==
    \A i \in DOMAIN papers : ScoreMin <= papers[i].score /\ papers[i].score <= ScoreMax

\* min(10, max(0, n)) on numbers.
Clamped(n) == IF n < ScoreMin THEN ScoreMin ELSE IF n > ScoreMax THEN ScoreMax ELSE n

\* C6: every stored paper has its score in [0, 10], initially and after
\* every step, and update_score(id, s) with a number s on a stored paper
\* leaves that paper the score min(10, max(0, s)).
C6_ScoreClamped ==
    /\ ScoreInRange
    /\ [][/\ ScoreInRange'
          /\ (/\ Called("update_score")
              /\ result'.args.paper_id \in PaperIds
              /\ ~result'.args.score.nan) =>
                 GetPaperAfter(result'.args.paper_id).score
                     = Clamped(result'.args.score.n)]_vars

\* C6 witness: update_score has been called with a score above 10 on a stored
\* paper.
C6_Witness ==
    /\ result.op = "update_score"
    /\ result.args.paper_id \in PaperIds
    /\ ~result.args.score.nan
    /\ result.args.score.n > ScoreMax

\* C7: update_status with a status outside draft, review, published,
\* archived raises ValueError and changes no table.
C7_InvalidStatusRejected ==
    [][(/\ Called("update_status")
        /\ result'.args.status \notin {"draft", "review", "published", "archived"}) =>
          /\ result'.err = "ValueError"
          /\ store' = store]_vars

\* C7 witness: update_status has been called with an invalid status on a
\* stored paper whose status is no longer draft.
C7_Witness ==
    /\ result.op = "update_status"
    /\ result.args.status = "not-a-real-status"
    /\ get_paper(result.args.paper_id).found
    /\ get_paper(result.args.paper_id).status # "draft"

\* C8: add_paper with an empty title raises an error and stores neither a
\* paper row nor a projection row.
C8_EmptyTitleRejected ==
    [][(Called("add_paper") /\ result'.args.title = <<>>) =>
          /\ result'.err # "none"
          /\ papers' = papers
          /\ papers_fts' = papers_fts]_vars

\* C9: update_hypothesis with an id no stored hypothesis has raises KeyError
\* and changes no table.
C9_UnknownHypothesisRejected ==
    [][(Called("update_hypothesis") /\ result'.args.hyp_id \notin HypIds) =>
          /\ result'.err = "KeyError"
          /\ store' = store]_vars

\* C9 witness: update_hypothesis has been called with an unknown id and
\* fields to set, with hypotheses stored.
C9_Witness ==
    /\ result.op = "update_hypothesis"
    /\ result.args.hyp_id \notin HypIds
    /\ result.args.status.some
    /\ hypotheses # <<>>

HypRow(hyps, id) == CHOOSE r \in Range(hyps) : r.id = id

\* C10: a successful update_hypothesis on a stored hypothesis sets each
\* supplied field among status, confidence and evidence to the value
\* supplied (a supplied evidence list, the empty one included, replaces the
\* stored one) and keeps each omitted field.
C10_SuppliedFieldsOnly ==
    [][(/\ Called("update_hypothesis")
        /\ result'.args.hyp_id \in HypIds
        /\ result'.err = "none") =>
          LET a   == result'.args
              old == HypRow(hypotheses, a.hyp_id)
              new == HypRow(hypotheses', a.hyp_id)
          IN  /\ new.status = (IF a.status.some THEN a.status.v ELSE old.status)
              /\ new.confidence =
                     (IF a.confidence.some THEN a.confidence.v.n ELSE old.confidence)
              /\ JsonLoads(new.evidence) =
                     (IF a.evidence.some THEN a.evidence.v ELSE JsonLoads(old.evidence))]_vars

\* C11: an add_paper call with the title of a stored paper that was created
\* in the same second returns the id of that paper; an add_paper call that
\* returns the id of a stored paper leaves table papers as it is (no field of
\* the stored paper is overwritten); and no two stored papers share an id.
C11_InsertIfAbsent ==
    [][/\ Called("add_paper") =>
              \A i \in DOMAIN papers :
                  (/\ papers[i].title = result'.args.title
                   /\ Second(papers[i].created_at) = Second(clock)) =>
                      result'.ret = Some(papers[i].id)
       /\ (Called("add_paper") /\ result'.ret.v \in PaperIds) => papers' = papers
       /\ \A i, j \in DOMAIN papers' : papers'[i].id = papers'[j].id => i = j]_vars

\* C11 witness: add_paper has been called twice with the same title in the
\* same second and with different abstracts; one paper is stored and it has
\* the abstract of the first call.
C11_Witness ==
    /\ result.op = "add_paper"
    /\ Len(papers_fts) = 2
    /\ Len(papers) = 1
    /\ papers[1].id = result.ret.v
    /\ papers[1].abstract # result.args.abstract

\* C12: delete_paper(id) returns true exactly when a paper with that id is
\* stored at the call, and no paper with that id is stored after it; a second
\* delete_paper(id) right after the first returns false.
C12_DeleteReturnsWhetherRemoved ==
    [][Called("delete_paper") =>
          /\ result'.ret = Some(result'.args.paper_id \in PaperIds)
          /\ result'.args.paper_id \notin {papers'[i].id : i \in DOMAIN papers'}
          /\ (result.op = "delete_paper" /\ result.args = result'.args) =>
                 result'.ret = Some(FALSE)]_vars

\* C12 witness: delete_paper has returned false for an id that add_paper
\* returned earlier (the index still holds its row) and that is stored no
\* longer.
C12_Witness ==
    /\ result.op = "delete_paper"
    /\ result.ret = Some(FALSE)
    /\ result.args.paper_id # NoSuchPaper
    /\ papers_fts # <<>>
    /\ papers = <<>>

\* C13: update_score with an id no stored paper has raises no error and
\* changes no table.
C13_UpdateScoreUnknownIdNoOp ==
    [][(Called("update_score") /\ result'.args.paper_id \notin PaperIds) =>
          /\ result'.err = "none"
          /\ store' = store]_vars

\* C13 witness: update_score has been called with an unknown id while a
\* paper is stored.
C13_Witness ==
    /\ result.op = "update_score"
    /\ result.args.paper_id \notin PaperIds
    /\ papers # <<>>

\* The ids of the summaries a search returned.
ReturnedIds(r) == {r.ret.v[i].id : i \in DOMAIN r.ret.v}

\* The query occurs in a title, an abstract or a tag of p, case-insensitively.
OccursIn(query, p) ==
    \/ Contains(LowerStr(p.title), LowerStr(query))
    \/ Contains(LowerStr(p.abstract), LowerStr(query))
    \/ \E t \in Range(JsonLoads(p.tags)) : Contains(LowerStr(t), LowerStr(query))

\* C14: a search with a limit of at least the number of stored papers returns
\* without error the id of every stored paper whose title contains the query
\* (case-insensitively), and a search for a query that occurs in no stored
\* title, abstract or tag returns the empty sequence without error.
C14_SearchCompleteAndSound ==
    [][Called("search") =>
          LET q == result'.args.query
          IN  /\ (/\ result'.args.limit >= Len(papers)
                   /\ \E i \in DOMAIN papers : Contains(LowerStr(papers[i].title), LowerStr(q))) =>
                      /\ result'.err = "none"
                      /\ \A i \in DOMAIN papers :
                             Contains(LowerStr(papers[i].title), LowerStr(q)) =>
                                 papers[i].id \in ReturnedIds(result')
              /\ (\A i \in DOMAIN papers : ~OccursIn(q, papers[i])) =>
                      /\ result'.err = "none"
                      /\ result'.ret = Some(<<>>)]_vars

\* The status filter of a listing call: the status, or "" when none is given
\* (an empty status string counts as none, as `if status:` has it).
StatusFilter(status) == OrElseStr(status, "")

\* The stored papers a listing with that status and score floor selects.
Selected(status, min_score) ==
    {p \in Range(papers) :
        /\ p.score >= min_score
        /\ StatusFilter(status) # "" => p.status = StatusFilter(status)}

\* ret is a listing of the papers of the set sel, up to n of them: the
\* summaries of distinct papers of sel, by score non-increasing, min(n, |sel|)
\* of them, and no paper of sel left out has a score above a listed one.
IsTopListing(ret, sel, n) ==
    /\ Len(ret) <= n
    /\ Len(ret) = (IF Cardinality(sel) < n THEN Cardinality(sel) ELSE n)
    /\ \A i \in DOMAIN ret : \E p \in sel : ret[i] = RowToSummary(p)
    /\ \A i, j \in DOMAIN ret : ret[i].id = ret[j].id => i = j
    /\ \A i, j \in DOMAIN ret : i < j => ret[i].score >= ret[j].score
    /\ \A p \in sel :
           (\A i \in DOMAIN ret : ret[i].id # p.id) =>
               \A i \in DOMAIN ret : p.score <= ret[i].score

\* C15: list_papers(status, tag=None, min_score, limit) returns at most limit
\* summaries, each of a stored paper with score >= min_score and, when a
\* status is given, with that status, by score non-increasing, and no stored
\* paper that satisfies the filters and is left out has a score above a
\* returned one.
C15_ListPapersFilteredAndOrdered ==
    [][(Called("list_papers") /\ OrElse(result'.args.tag, <<>>) = <<>>) =>
          /\ result'.err = "none"
          /\ IsTopListing(result'.ret.v,
                          Selected(result'.args.status, result'.args.min_score.n),
                          result'.args.limit)]_vars

\* C15 witness: list_papers without a tag and with limit 1 has returned one
\* paper of two that satisfy the filters, and their scores differ.
C15_Witness ==
    /\ result.op = "list_papers"
    /\ ~result.args.tag.some
    /\ result.args.limit = 1
    /\ Len(result.ret.v) = 1
    /\ Cardinality(Selected(result.args.status, result.args.min_score.n)) = 2
    /\ \E p \in Range(papers) : p.score < result.ret.v[1].score

\* C16: list_papers with a tag returns the summaries of list_papers with the
\* same status, score floor and limit and no tag whose tags hold the tag in
\* some case, in the same order: the tag is applied after the limit.
C16_TagFilterAfterLimit ==
    [][(Called("list_papers") /\ OrElse(result'.args.tag, <<>>) # <<>>) =>
          LET a     == result'.args
              no_tag == ListPapers(papers, a.status, None, a.min_score, a.limit)
          IN  /\ result'.err = "none"
              /\ IsTopListing(no_tag, Selected(a.status, a.min_score.n), a.limit)
              /\ result'.ret.v =
                     SelectSeq(no_tag, LAMBDA r :
                         \E i \in DOMAIN r.tags : LowerStr(r.tags[i]) = LowerStr(a.tag.v))]_vars

\* C16 witness: list_papers with tag "t" and limit 1 has returned nothing
\* while a stored paper carries the tag "T".
C16_Witness ==
    /\ result.op = "list_papers"
    /\ result.args.tag = Some(<<"t">>)
    /\ result.args.limit = 1
    /\ result.ret.v = <<>>
    /\ \E p \in Range(papers) : \E i \in DOMAIN JsonLoads(p.tags) : JsonLoads(p.tags)[i] = <<"T">>

\* C20: top_papers(n, status) returns what list_papers(status=status,
\* limit=n) returns: at most n summaries of stored papers, of that status
\* when one is given, by score non-increasing, and no stored paper of that
\* status outside the result has a score above a returned one.
C20_TopPapersIsListPapers ==
    [][Called("top_papers") =>
          LET a == result'.args
          IN  /\ result'.err = "none"
              /\ result'.ret.v = ListPapers(papers, a.status, None, Num(0), a.n)
              /\ IsTopListing(result'.ret.v, Selected(a.status, 0), a.n)]_vars

\* C20 witness: top_papers(1, review) has returned the one paper in review
\* while another paper has a higher score.
C20_Witness ==
    /\ result.op = "top_papers"
    /\ result.args = [n |-> 1, status |-> Some("review")]
    /\ Len(result.ret.v) = 1
    /\ \E p \in Range(papers) : p.score > result.ret.v[1].score

\* What the corpus_stats call of the step returned.
StatsAfter == result'.ret.v

\* The hypotheses of status "confirmed" among the stored ones.
ConfirmedHyps == {i \in DOMAIN hypotheses : hypotheses[i].status = "confirmed"}

\* x is y / n rounded to a whole number: no further from it than a half.
IsRounded(x, y, n) == 2 * x * n - 2 * y <= n /\ 2 * y - 2 * x * n <= n

\* C17: corpus_stats returns without an error in every state of the store;
\* total_hypotheses is the number of stored hypotheses, confirmed_hypotheses
\* the number of them with status confirmed, so that 0 <= confirmed <=
\* total; confirmation_rate is 0.0 when there is no hypothesis and otherwise
\* confirmed / total rounded to 3 decimals, and lies in [0, 1].
C17_ConfirmationRate ==
    [][Called("corpus_stats") =>
          LET total     == Len(hypotheses)
              confirmed == Cardinality(ConfirmedHyps)
              rate      == StatsAfter.confirmation_rate
          IN  /\ result'.err = "none"
              /\ StatsAfter.total_hypotheses = total
              /\ StatsAfter.confirmed_hypotheses = confirmed
              /\ 0 <= confirmed /\ confirmed <= total
              /\ 0 <= rate /\ rate <= 1000
              /\ IF total = 0 THEN rate = 0
                 ELSE IsRounded(rate, 1000 * confirmed, total)]_vars

\* corpus_stats has returned with two of three hypotheses confirmed: the rate
\* 0.667 is 2/3 rounded up.
C17_Witness ==
    /\ result.op = "corpus_stats"
    /\ Len(hypotheses) = 3
    /\ Cardinality(ConfirmedHyps) = 2
    /\ result.ret.v.confirmation_rate = 667

\* The stored papers with score > 0, and the sum of their scores (in
\* thousandths).
ScoredPapers == SelectSeq(papers, LAMBDA p : p.score > 0)
ScoreSum == SumScore(ScoredPapers)

\* C18 as stated: avg_score is the mean of the scores of the stored papers
\* with score > 0, and 0.0 when there is none.  (avg_score is in hundredths,
\* the scores in thousandths.)
C18_AvgScoreIsMean ==
    [][Called("corpus_stats") =>
          IF ScoredPapers = <<>>
          THEN StatsAfter.avg_score = 0
          ELSE 10 * StatsAfter.avg_score * Len(ScoredPapers) = ScoreSum]_vars

\* C18, amended: avg_score is the mean of the scores of the stored papers
\* with score > 0 rounded to 2 decimals, the papers of score 0 counting
\* neither in the sum nor in the number; it is 0.0 when no stored paper has
\* score > 0.
C18_AvgScoreIsRoundedMean ==
    [][Called("corpus_stats") =>
          /\ result'.err = "none"
          /\ IF ScoredPapers = <<>>
             THEN StatsAfter.avg_score = 0
             ELSE IsRounded(StatsAfter.avg_score, ScoreSum, 10 * Len(ScoredPapers))]_vars

\* corpus_stats has returned with one paper of score 0 stored and one of
\* score 3.142: the average is 3.14.
C18_Witness ==
    /\ result.op = "corpus_stats"
    /\ \E i, k \in DOMAIN papers : papers[i].score = 0 /\ papers[k].score = 3142
    /\ Len(papers) = 2
    /\ result.ret.v.avg_score = 314

\* The sum of the counts f[x] for the x in S.
RECURSIVE SumCounts(_, _)
SumCounts(f, S) ==
    IF S = {} THEN 0
    ELSE LET x == CHOOSE y \in S : TRUE IN f[x] + SumCounts(f, S \ {x})

\* The stored papers whose tags have the tag t among them.
PapersCarrying(t) ==
    {i \in DOMAIN papers : \E k \in DOMAIN JsonLoads(papers[i].tags) :
                               JsonLoads(papers[i].tags)[k] = t}

\* C19: after add_paper, update_status and delete_paper calls, corpus_stats
\* returns as total_papers the number of stored papers, the counts of
\* by_status sum to total_papers, and every tag listed in top_tags is listed
\* with the number of stored papers that carry it.
C19_StatsCountStoredPapers ==
    [][Called("corpus_stats") =>
          /\ StatsAfter.total_papers = Len(papers)
          /\ SumCounts(StatsAfter.by_status, DOMAIN StatsAfter.by_status)
                 = StatsAfter.total_papers
          /\ \A e \in DOMAIN StatsAfter.top_tags :
                 StatsAfter.top_tags[e][2]
                     = Cardinality(PapersCarrying(StatsAfter.top_tags[e][1]))]_vars

\* C21: over add_hypothesis and update_hypothesis calls with any status
\* argument, every stored hypothesis has one of the five statuses, and a
\* hypothesis add_hypothesis has stored starts as proposed.
C21_HypothesisStatusValid ==
    [][/\ \A i \in DOMAIN hypotheses' : hypotheses'[i].status \in HypStatuses
       /\ (Called("add_hypothesis") /\ result'.err = "none") =>
              HypRow(hypotheses', result'.ret.v).status = "proposed"]_vars

\* The status of the stored paper with this id.
StatusOf(ps, id) == (CHOOSE r \in Range(ps) : r.id = id).status

\* C22: a paper add_paper has stored starts in draft; update_status of a
\* stored paper, whatever its status, with any of the four statuses succeeds
\* and get_paper of the id has that status afterwards; and every stored paper
\* has one of the four statuses.
C22_AnyStatusFollowsAny ==
    [][/\ (Called("add_paper") /\ result'.ret.v \notin PaperIds) =>
              GetPaperAfter(result'.ret.v).status = "draft"
       /\ (/\ Called("update_status")
           /\ result'.args.paper_id \in PaperIds
           /\ result'.args.status \in PaperStatuses) =>
              /\ result'.err = "none"
              /\ GetPaperAfter(result'.args.paper_id).status = result'.args.status
       /\ \A i \in DOMAIN papers' : papers'[i].status \in PaperStatuses]_vars

\* update_status has returned with status draft for a stored paper, which
\* is in draft after it, while another stored paper has been moved to
\* archived.
C22_Witness ==
    /\ result.op = "update_status"
    /\ result.err = "none"
    /\ result.args.status = "draft"
    /\ result.args.paper_id \in PaperIds
    /\ StatusOf(papers, result.args.paper_id) = "draft"
    /\ \E i \in DOMAIN papers : papers[i].status = "archived"

\* The paper ids the rows of a table of hypotheses or citations refer to.
ParentIds(rows) == {rows[i].paper_id : i \in DOMAIN rows}

\* Some row of rows with this paper_id is no row of rows_after.
LosesRowOf(rows, rows_after, id) ==
    \E i \in DOMAIN rows :
        rows[i].paper_id = id /\ rows[i] \notin Range(rows_after)

\* C23: what is stored, as every connection other than the one inside
\* add_paper or delete_paper reads it, changes in whole operations only.  A
\* step that stores a paper row or a projection row stores both and is the
\* return of an add_paper call; a step that removes a paper, or a hypothesis
\* or citation of a paper, leaves neither that paper nor any hypothesis or
\* citation of it; and a call that fails or is interrupted between its
\* statements leaves everything stored as it was.
C23_AtomicMutations ==
    [][/\ (PaperIds' \ PaperIds # {} \/ papers_fts' # papers_fts) =>
              /\ result'.op = "add_paper" /\ result'.err = "none"
              /\ result'.ret.v \in PaperIds'
              /\ Len(papers_fts') = Len(papers_fts) + 1
              /\ papers_fts'[Len(papers_fts')].title = result'.args.title
       /\ \A id \in PaperIds \cup ParentIds(hypotheses) \cup ParentIds(citations) :
              (\/ id \in PaperIds \ PaperIds'
               \/ LosesRowOf(hypotheses, hypotheses', id)
               \/ LosesRowOf(citations, citations', id)) =>
                  /\ id \notin PaperIds'
                  /\ id \notin ParentIds(hypotheses')
                  /\ id \notin ParentIds(citations')
       /\ result'.err = "Interrupted" => UNCHANGED store]_vars

\* delete_paper of a stored paper with a hypothesis and a citation has
\* executed its DELETE FROM hypotheses and DELETE FROM citations and not yet
\* its DELETE FROM papers, and corpus_stats of another connection counts the
\* hypothesis still.
C23_Witness ==
    /\ txn.op = "delete_paper"
    /\ txn.pc = "papers"
    /\ txn.args.paper_id \in PaperIds
    /\ txn.args.paper_id \in ParentIds(hypotheses) \cap ParentIds(citations)
    /\ txn.args.paper_id \notin ParentIds(txn.hypotheses) \cup ParentIds(txn.citations)
    /\ result.op = "corpus_stats"
    /\ result.ret.v.total_hypotheses = Len(hypotheses)

\* The indices of the rows of a table that have this paper_id, and the one
\* of them that has n - 1 of them before it.
OwnedBy(rows, id) == {k \in DOMAIN rows : rows[k].paper_id = id}
NthOwned(rows, id, n) ==
    CHOOSE k \in OwnedBy(rows, id) :
        Cardinality({j \in OwnedBy(rows, id) : j < k}) = n - 1

\* C24: get_paper of a stored paper returns the stored hypotheses whose
\* paper_id is its id, each once and no other, by creation time
\* non-decreasing, and the stored citations whose paper_id is its id, each
\* once and no other, in the order of their add_citation calls (the order of
\* their AUTOINCREMENT ids, in which table citations is kept).
C24_GetPaperLoadsItsGraph ==
    \A id \in PaperIds :
        LET p == get_paper(id)
        IN  /\ p.found
            /\ Len(p.hypotheses) = Cardinality(OwnedBy(hypotheses, id))
            /\ {p.hypotheses[n].id : n \in DOMAIN p.hypotheses}
                   = {hypotheses[k].id : k \in OwnedBy(hypotheses, id)}
            /\ \A n \in DOMAIN p.hypotheses :
                   p.hypotheses[n] \in
                       {RowToHypothesis(hypotheses[k]) : k \in OwnedBy(hypotheses, id)}
            /\ \A m, n \in DOMAIN p.hypotheses :
                   m < n => p.hypotheses[m].created_at <= p.hypotheses[n].created_at
            /\ Len(p.citations) = Cardinality(OwnedBy(citations, id))
            /\ \A n \in DOMAIN p.citations :
                   p.citations[n] = RowToCitation(citations[NthOwned(citations, id, n)])
            /\ \A j, k \in DOMAIN citations : j < k => citations[j].id < citations[k].id

\* A stored paper has two hypotheses created at different times and two
\* citations with different titles, and another stored paper has a hypothesis
\* that was created between the two.
C24_Witness ==
    \E id, other \in PaperIds :
        /\ id # other
        /\ Len(get_paper(id).hypotheses) = 2
        /\ get_paper(id).hypotheses[1].created_at < get_paper(id).hypotheses[2].created_at
        /\ Len(get_paper(id).citations) = 2
        /\ get_paper(id).citations[1].title # get_paper(id).citations[2].title
        /\ \E k \in OwnedBy(hypotheses, other) :
               /\ get_paper(id).hypotheses[1].created_at < hypotheses[k].created_at
               /\ hypotheses[k].created_at < get_paper(id).hypotheses[2].created_at

\* The stored paper with this id.
PaperRow(ps, id) == CHOOSE r \in Range(ps) : r.id = id

\* C25: the clock never going back, a paper and a hypothesis are stored with
\* updated_at = created_at = the time of the call; a successful update_score
\* or update_status of a stored paper and a successful update_hypothesis of a
\* stored hypothesis leave the record's updated_at at the time of the call;
\* no step changes the created_at of a record that stays stored; and
\* updated_at >= created_at for every stored paper and hypothesis.
C25_TimestampsRefreshed ==
    [][/\ clock' >= clock
       /\ (Called("add_paper") /\ result'.ret.v \notin PaperIds) =>
              /\ PaperRow(papers', result'.ret.v).created_at = clock
              /\ PaperRow(papers', result'.ret.v).updated_at = clock
       /\ (Called("add_hypothesis") /\ result'.err = "none") =>
              /\ HypRow(hypotheses', result'.ret.v).created_at = clock
              /\ HypRow(hypotheses', result'.ret.v).updated_at = clock
       /\ (/\ Called("update_score") \/ Called("update_status")
           /\ result'.err = "none"
           /\ result'.args.paper_id \in PaperIds) =>
              PaperRow(papers', result'.args.paper_id).updated_at = clock
       /\ (/\ Called("update_hypothesis")
           /\ result'.err = "none"
           /\ result'.args.hyp_id \in HypIds) =>
              HypRow(hypotheses', result'.args.hyp_id).updated_at = clock
       /\ \A id \in PaperIds \cap PaperIds' :
              PaperRow(papers', id).created_at = PaperRow(papers, id).created_at
       /\ \A id \in HypIds \cap HypIds' :
              HypRow(hypotheses', id).created_at = HypRow(hypotheses, id).created_at
       /\ \A i \in DOMAIN papers' : papers'[i].updated_at >= papers'[i].created_at
       /\ \A i \in DOMAIN hypotheses' :
              hypotheses'[i].updated_at >= hypotheses'[i].created_at]_vars

\* update_hypothesis has returned for a hypothesis that was created earlier,
\* whose updated_at is now later than its created_at, while its paper has
\* been updated later than it was created too.
C25_Witness ==
    /\ result.op = "update_hypothesis"
    /\ result.err = "none"
    /\ result.args.hyp_id \in HypIds
    /\ HypRow(hypotheses, result.args.hyp_id).created_at < clock
    /\ HypRow(hypotheses, result.args.hyp_id).updated_at = clock
    /\ \E i \in DOMAIN papers :
           /\ papers[i].id = HypRow(hypotheses, result.args.hyp_id).paper_id
           /\ papers[i].updated_at > papers[i].created_at

\* C26: a stored citation stays stored with every field as it is in every
\* step but a delete_paper call with its paper_id; add_citation appends a row
\* and leaves the rows stored before as they are, one of the same paper_id
\* and ref_id included.
C26_CitationsAppendOnly ==
    [][/\ \A k \in DOMAIN citations :
              \/ citations[k] \in Range(citations')
              \/ /\ Called("delete_paper")
                 /\ result'.args.paper_id = citations[k].paper_id
       /\ \A k \in DOMAIN citations' :
              (\E j \in DOMAIN citations : citations[j].id = citations'[k].id) =>
                  citations'[k] \in Range(citations)
       /\ (Called("add_citation") /\ result'.err = "none") =>
              /\ Len(citations') = Len(citations) + 1
              /\ SubSeq(citations', 1, Len(citations)) = citations]_vars

\* add_citation has returned and two citations of the same paper_id and
\* ref_id are stored.
C26_Witness ==
    /\ result.op = "add_citation"
    /\ \E j, k \in DOMAIN citations :
           /\ j < k
           /\ citations[j].paper_id = citations[k].paper_id
           /\ citations[j].ref_id = citations[k].ref_id
           /\ citations[j].paper_id \in PaperIds

\* The summaries of the stored papers.
StoredSummaries == {RowToSummary(papers[i]) : i \in DOMAIN papers}

\* C27: search with any query and a limit of at least 0 returns without an
\* error at most limit summaries, each the summary of a stored paper; it
\* returns the empty sequence when nothing matches.
C27_SearchBoundedAndStored ==
    [][(Called("search") /\ result'.args.limit >= 0) =>
          /\ result'.err = "none"
          /\ Len(result'.ret.v) <= result'.args.limit
          /\ \A k \in DOMAIN result'.ret.v : result'.ret.v[k] \in StoredSummaries]_vars

NewHypothesis(confidence) ==
    [id |-> <<"x">>, text |-> <<"t">>, status |-> "proposed",
     confidence |-> confidence, evidence |-> <<>>,
     created_at |-> <<>>, updated_at |-> <<>>]

\* The delta arguments of update_confidence, in tenths: -2.0, -0.5, -0.3,
\* -0.1, 0, 0.1, 0.3, 0.5, 2.0, and NaN.
DeltaArgs ==
    {Num(-20), Num(-5), Num(-3), Num(-1), Num(0), Num(1), Num(3), Num(5), Num(20), NaN}

\* Python's a + b on floats.
PyAdd(a, b) == IF a.nan \/ b.nan THEN NaN ELSE Num(a.n + b.n)

\* A variant of UpdateConfidence without the lower bound.
UpdateConfidence_NoLowerBound(confidence, delta) ==
    PyMin(Num(ConfMax), PyAdd(confidence, delta))

\* max(0.0, min(1.0, self.confidence + delta)) of Hypothesis.update_confidence.
UpdateConfidence(confidence, delta) ==
    PyMax(Num(ConfMin), PyMin(Num(ConfMax), PyAdd(confidence, delta)))

\* A Hypothesis object with a confidence in [0, 1] has been constructed; the
\* store is new.  result holds the object.
InitHypothesis ==
    /\ clock = 0
    /\ papers = <<>>
    /\ papers_fts = <<>>
    /\ hypotheses = <<>>
    /\ citations = <<>>
    /\ cit_seq = 0
    /\ txn = Idle
    /\ \E c \in ConfMin..ConfMax :
           result = Returned("Hypothesis", [confidence |-> Num(c)], NewHypothesis(Num(c)))

\* update_confidence(delta) on the object the last call made or updated.
update_confidence(delta) ==
    /\ result.op \in {"Hypothesis", "update_confidence"}
    /\ result' = Returned("update_confidence",
                      [self |-> result.ret.v, delta |-> delta],
                      [result.ret.v EXCEPT
                          !.confidence = UpdateConfidence(@, delta)])
    /\ UNCHANGED <<clock, store, txn>>

NextConfidence == \E d \in DeltaArgs : update_confidence(d)

SpecConfidence == InitHypothesis /\ [][NextConfidence]_vars

\* min(1.0, max(0.0, n)) on numbers, in tenths.
ClampedConfidence(n) == IF n < ConfMin THEN ConfMin ELSE IF n > ConfMax THEN ConfMax ELSE n

\* C28: update_confidence(delta) on a Hypothesis whose confidence is in
\* [0, 1] leaves it the confidence min(1.0, max(0.0, confidence + delta)) for
\* every number delta, and a confidence in [0, 1] for every delta; so every
\* sequence of update_confidence calls keeps the confidence in [0, 1].
C28_UpdateConfidenceClamped ==
    [][Called("update_confidence") =>
          LET before == result'.args.self.confidence
              delta  == result'.args.delta
              after  == result'.ret.v.confidence
          IN  /\ ~before.nan /\ ConfMin <= before.n /\ before.n <= ConfMax
              /\ ~after.nan /\ ConfMin <= after.n /\ after.n <= ConfMax
              /\ ~delta.nan => after.n = ClampedConfidence(before.n + delta.n)]_vars

\* update_confidence(-2.0) has been called on an object of confidence 1.0 and
\* has left it the confidence 0.0.
C28_Witness ==
    /\ result.op = "update_confidence"
    /\ result.args.self.confidence = Num(ConfMax)
    /\ result.args.delta = Num(-20)
    /\ result.ret.v.confidence = Num(ConfMin)

\* Row b is row a but for the columns named in cols.
SameBut(a, b, cols) ==
    /\ DOMAIN a = DOMAIN b
    /\ \A c \in DOMAIN a \ cols : a[c] = b[c]

\* Table papers after the step is table papers before it but for the columns
\* cols of the row with this id.
OnlyChanges(id, cols) ==
    /\ Len(papers') = Len(papers)
    /\ \A i \in DOMAIN papers :
           IF papers[i].id = id
           THEN SameBut(papers[i], papers'[i], cols)
           ELSE papers'[i] = papers[i]

\* C30: update_score(id, s) changes the score and updated_at of the paper
\* with that id and update_status(id, s) its status and updated_at, and
\* nothing else: the other columns of that paper, every other paper, every
\* hypothesis, every citation and the search projection stay as they are.
C30_UpdatesChangeOneFieldOnly ==
    [][/\ Called("update_score") =>
              /\ OnlyChanges(result'.args.paper_id, {"score", "updated_at"})
              /\ UNCHANGED <<papers_fts, hypotheses, citations, cit_seq>>
       /\ Called("update_status") =>
              /\ OnlyChanges(result'.args.paper_id, {"status", "updated_at"})
              /\ UNCHANGED <<papers_fts, hypotheses, citations, cit_seq>>]_vars

\* update_score has given a new score to one of two stored papers, the other
\* of which, a hypothesis and a citation are stored, some time after that
\* paper was created.
C30_Witness ==
    /\ result.op = "update_score"
    /\ Len(papers) = 2
    /\ hypotheses # <<>>
    /\ citations # <<>>
    /\ \E i \in DOMAIN papers :
           /\ papers[i].id = result.args.paper_id
           /\ papers[i].score > 0
           /\ papers[i].updated_at = clock
           /\ papers[i].created_at < clock

====
